---- MODULE Spec2Model ----
(***************************************************************************)
(* To-device events of ruma-events (src/to_device.rs): the decoding of an  *)
(* untyped JSON tree into raw::ToDevice, the conversion of raw::ToDevice   *)
(* into ToDevice (TryFromRaw), and the derived Serialize of ToDevice.      *)
(* A batch of messages is processed; each message has its own pipeline.    *)
(***************************************************************************)
EXTENDS Integers, FiniteSets, Sequences, TLC

(* ------------------------------ bounds --------------------------------- *)
\* Number of message slots of the batch.
NMsgs == 2

Msgs == 1..NMsgs

(* --------------------------- JSON value model -------------------------- *)
\* serde_json::Value, restricted to the shapes the decoders tell apart.
JString(s) == [t |-> "string", v |-> s, shape |-> "-"]
JNumber == [t |-> "number", v |-> "7", shape |-> "-"]
\* An object that fits the content type `shape`, carrying key material v.
JContent(k, b) == [t |-> "object", v |-> b, shape |-> k]
\* Marker used only while building trees: the field is not in the object.
Absent == [t |-> "absent", v |-> "-", shape |-> "-"]

\* A JSON object with the three envelope fields; an Absent one is left out.
JObject(ty, sender, content) ==
    LET all == [type |-> ty, sender |-> sender, content |-> content]
        keys == {k \in DOMAIN all : all[k].t # "absent"}
    IN  [k \in keys |-> all[k]]

(* ------------------------------ Result --------------------------------- *)
None == [none |-> TRUE]
Ok(x) == [ok |-> TRUE, val |-> x, err |-> None]
Err(e) == [ok |-> FALSE, val |-> None, err |-> e]

\* serde::de::Error constructors.
missing_field(f) == [kind |-> "missing_field", arg |-> f]
custom(m) == [kind |-> "custom", arg |-> m]

(* ------------------------- the ten event kinds ------------------------- *)
\* Variants of ToDevice and raw::ToDevice, in declaration order.
Variants == << "RoomKey", "RoomEncrypted", "ForwardedRoomKey", "RoomKeyRequest",
               "KeyVerificationStart", "KeyVerificationAccept",
               "KeyVerificationKey", "KeyVerificationMac",
               "KeyVerificationCancel", "KeyVerificationRequest" >>

VariantSet == {Variants[n] : n \in DOMAIN Variants}

\* Wire discriminants named by the variants' documentation.
KnownTags == << "m.room_key", "m.room.encrypted", "m.forwarded_room_key",
                "m.room_key_request", "m.key.verification.start",
                "m.key.verification.accept", "m.key.verification.key",
                "m.key.verification.mac", "m.key.verification.cancel",
                "m.key.verification.request" >>

KnownTagSet == {KnownTags[n] : n \in DOMAIN KnownTags}

\* A tag of the shared registry that is not a to-device kind, and a custom tag.
OtherTags == {"m.room.message", "m.bogus"}

\* crate::EventType, deserialized from a string: the registry lookup.  Any
\* string resolves; one outside the registry becomes Custom(string).
EventType_from_str(s) ==
    IF \E n \in DOMAIN KnownTags : KnownTags[n] = s
    THEN [name |-> Variants[CHOOSE n \in DOMAIN KnownTags : KnownTags[n] = s],
          custom |-> "-"]
    ELSE IF s = "m.room.message"
    THEN [name |-> "RoomMessage", custom |-> "-"]
    ELSE [name |-> "Custom", custom |-> s]

EventType_deserialize(j) ==
    IF j.t = "string" THEN Ok(EventType_from_str(j.v)) ELSE Err("invalid type")

(* ------------------------------ UserId --------------------------------- *)
UserIdStrings == {"@alice:example.org", "@bob:example.org"}

\* ruma_identifiers::UserId parsed from its string form.
UserId_parse(s) ==
    IF s = "@alice:example.org"
    THEN [localpart |-> "alice", hostname |-> "example.org"]
    ELSE [localpart |-> "bob", hostname |-> "example.org"]

UserId_to_string(u) ==
    IF u.localpart = "alice" THEN "@alice:example.org" ELSE "@bob:example.org"

UserId_deserialize(j) ==
    IF j.t = "string" /\ j.v \in UserIdStrings
    THEN Ok(UserId_parse(j.v)) ELSE Err("invalid user id")

(* --------------------------- content codecs ---------------------------- *)
\* Key material a content object can carry; "malformed" and "unknown_code"
\* decode but do not pass the content type's TryFromRaw.
Bodies == {"key1", "key2", "malformed", "unknown_code"}

\* <kind>::raw::<Kind>EventContent deserialized from the content sub-object.
Content_deserialize(k, j) ==
    IF j.t = "object" /\ j.shape = k
    THEN Ok([kind |-> k, form |-> "raw", body |-> j.v])
    ELSE Err("invalid content")

\* <Kind>EventContent::try_from_raw.
Content_try_from_raw(c) ==
    IF c.body \in {"key1", "key2"}
    THEN Ok([kind |-> c.kind, form |-> "validated", body |-> c.body])
    ELSE Err([cause |-> c.body])

\* <Kind>EventContent serialized.
Content_serialize(c) == JContent(c.kind, c.body)

\* Display of a content error, as a String.
to_string(e) == [string |-> e.cause]

(* ------------------------------ util ----------------------------------- *)
\* serde_json::from_value::<T>: the decoder of the type the caller asks for,
\* T being EventType, UserId or the raw content type of a kind.
from_value(T, j) ==
    IF T = "EventType" THEN EventType_deserialize(j)
    ELSE IF T = "UserId" THEN UserId_deserialize(j)
    ELSE Content_deserialize(T, j)

\* util::get_field::<T>: the named field of the tree, decoded as T; a missing
\* or wrong-shaped field is reported under the field's name.
get_field(value, field, T) ==
    IF field \notin DOMAIN value
    THEN Err(missing_field(field))
    ELSE LET r == from_value(T, value[field])
         IN  IF r.ok THEN r ELSE Err(missing_field(field))

(* ------------------------- ToDeviceEvent<C> ---------------------------- *)
\* ToDeviceEvent<C>::deserialize with the two extractions in the other order.
ToDeviceEvent_deserialize_sender_first(k, value) ==
    LET sender == get_field(value, "sender", "UserId")
        content == get_field(value, "content", k)
    IN  IF ~sender.ok THEN Err(sender.err)
        ELSE IF ~content.ok THEN Err(content.err)
        ELSE Ok([sender |-> sender.val, content |-> content.val])

\* ToDeviceEvent<C>::deserialize with a missing sender defaulted.
ToDeviceEvent_deserialize_default_sender(k, value) ==
    LET content == get_field(value, "content", k)
        sender == get_field(value, "sender", "UserId")
    IN  IF ~content.ok THEN Err(content.err)
        ELSE IF ~sender.ok
        THEN Ok([sender |-> UserId_parse("@alice:example.org"), content |-> content.val])
        ELSE Ok([sender |-> sender.val, content |-> content.val])

\* impl Deserialize for ToDeviceEvent<C>: content is extracted, then sender.
ToDeviceEvent_deserialize(k, value) ==
    LET content == get_field(value, "content", k)
        sender == get_field(value, "sender", "UserId")
    IN  IF ~content.ok THEN Err(content.err)
        ELSE IF ~sender.ok THEN Err(sender.err)
        ELSE Ok([sender |-> sender.val, content |-> content.val])

\* ToDeviceEvent<C>::try_from_raw replacing the content error by its own.
ToDeviceEvent_try_from_raw_own_error(raw) ==
    LET content == Content_try_from_raw(raw.content)
    IN  IF ~content.ok THEN Err([cause |-> "invalid event"])
        ELSE Ok([sender |-> raw.sender, content |-> content.val])

\* ToDeviceEvent<C>::try_from_raw keeping the raw content when the
\* normalization fails.
ToDeviceEvent_try_from_raw_partial(raw) ==
    LET content == Content_try_from_raw(raw.content)
    IN  IF ~content.ok THEN Ok([sender |-> raw.sender, content |-> raw.content])
        ELSE Ok([sender |-> raw.sender, content |-> content.val])

\* impl TryFromRaw for ToDeviceEvent<C>.
ToDeviceEvent_try_from_raw(raw) ==
    LET content == Content_try_from_raw(raw.content)
    IN  IF ~content.ok THEN Err(content.err)
        ELSE Ok([sender |-> raw.sender, content |-> content.val])

\* derive(Serialize) for ToDeviceEvent<C>: a map of the two fields.
ToDeviceEvent_serialize(e) ==
    [sender |-> JString(UserId_to_string(e.sender)),
     content |-> Content_serialize(e.content)]

(* ----------------------------- ToDevice -------------------------------- *)
\* util::try_variant_from_value: decode the whole tree as the variant's
\* payload type and wrap it in the variant.
try_variant_from_value(value, variant) ==
    LET r == ToDeviceEvent_deserialize(variant, value)
    IN  IF r.ok THEN Ok([variant |-> variant, event |-> r.val]) ELSE r

\* Two neighbouring arms of a match exchanged.
SwapKeyMac(name) ==
    IF name = "KeyVerificationKey" THEN "KeyVerificationMac"
    ELSE IF name = "KeyVerificationMac" THEN "KeyVerificationKey"
    ELSE name

\* raw::ToDevice::deserialize with the Key and Mac arms exchanged.
raw_ToDevice_deserialize_swapped(value) ==
    LET event_type == get_field(value, "type", "EventType")
    IN  IF ~event_type.ok THEN Err(event_type.err)
        ELSE IF event_type.val.name \in VariantSet
        THEN try_variant_from_value(value, SwapKeyMac(event_type.val.name))
        ELSE Err(custom("unknown to-device event"))

\* raw::ToDevice::deserialize whose catch-all arm decodes as RoomKey.
raw_ToDevice_deserialize_defaulting(value) ==
    LET event_type == get_field(value, "type", "EventType")
    IN  IF ~event_type.ok THEN Err(event_type.err)
        ELSE IF event_type.val.name \in VariantSet
        THEN try_variant_from_value(value, event_type.val.name)
        ELSE try_variant_from_value(value, "RoomKey")

\* raw::ToDevice::deserialize treating an unreadable type as an unknown one.
raw_ToDevice_deserialize_untyped(value) ==
    LET event_type == get_field(value, "type", "EventType")
    IN  IF ~event_type.ok THEN Err(custom("unknown to-device event"))
        ELSE IF event_type.val.name \in VariantSet
        THEN try_variant_from_value(value, event_type.val.name)
        ELSE Err(custom("unknown to-device event"))

\* impl Deserialize for raw::ToDevice.
raw_ToDevice_deserialize(value) ==
    LET event_type == get_field(value, "type", "EventType")
    IN  IF ~event_type.ok THEN Err(event_type.err)
        ELSE CASE event_type.val.name = "RoomKey" ->
                    try_variant_from_value(value, "RoomKey")
               [] event_type.val.name = "RoomEncrypted" ->
                    try_variant_from_value(value, "RoomEncrypted")
               [] event_type.val.name = "ForwardedRoomKey" ->
                    try_variant_from_value(value, "ForwardedRoomKey")
               [] event_type.val.name = "RoomKeyRequest" ->
                    try_variant_from_value(value, "RoomKeyRequest")
               [] event_type.val.name = "KeyVerificationStart" ->
                    try_variant_from_value(value, "KeyVerificationStart")
               [] event_type.val.name = "KeyVerificationAccept" ->
                    try_variant_from_value(value, "KeyVerificationAccept")
               [] event_type.val.name = "KeyVerificationKey" ->
                    try_variant_from_value(value, "KeyVerificationKey")
               [] event_type.val.name = "KeyVerificationMac" ->
                    try_variant_from_value(value, "KeyVerificationMac")
               [] event_type.val.name = "KeyVerificationCancel" ->
                    try_variant_from_value(value, "KeyVerificationCancel")
               [] event_type.val.name = "KeyVerificationRequest" ->
                    try_variant_from_value(value, "KeyVerificationRequest")
               [] OTHER -> Err(custom("unknown to-device event"))

\* util::try_convert_variant: convert the variant's payload, wrap it in the
\* variant; the error type of ToDevice is String.
try_convert_variant(variant, c) ==
    LET r == ToDeviceEvent_try_from_raw(c)
    IN  IF r.ok THEN Ok([variant |-> variant, event |-> r.val])
        ELSE Err(to_string(r.err))

\* ToDevice::try_from_raw with the Key and Mac constructors exchanged.
ToDevice_try_from_raw_swapped(raw) ==
    try_convert_variant(SwapKeyMac(raw.variant), raw.event)

\* impl TryFromRaw for ToDevice.
ToDevice_try_from_raw(raw) ==
    CASE raw.variant = "RoomKey" -> try_convert_variant("RoomKey", raw.event)
      [] raw.variant = "RoomEncrypted" -> try_convert_variant("RoomEncrypted", raw.event)
      [] raw.variant = "ForwardedRoomKey" -> try_convert_variant("ForwardedRoomKey", raw.event)
      [] raw.variant = "RoomKeyRequest" -> try_convert_variant("RoomKeyRequest", raw.event)
      [] raw.variant = "KeyVerificationStart" ->
            try_convert_variant("KeyVerificationStart", raw.event)
      [] raw.variant = "KeyVerificationAccept" ->
            try_convert_variant("KeyVerificationAccept", raw.event)
      [] raw.variant = "KeyVerificationKey" ->
            try_convert_variant("KeyVerificationKey", raw.event)
      [] raw.variant = "KeyVerificationMac" ->
            try_convert_variant("KeyVerificationMac", raw.event)
      [] raw.variant = "KeyVerificationCancel" ->
            try_convert_variant("KeyVerificationCancel", raw.event)
      [] raw.variant = "KeyVerificationRequest" ->
            try_convert_variant("KeyVerificationRequest", raw.event)

\* derive(Serialize) for the enum ToDevice, without serde attributes: the
\* externally tagged form, a map whose one key is the variant's name.
ToDevice_serialize(v) == [k \in {v.variant} |-> ToDeviceEvent_serialize(v.event)]

(* --------------------------- input payloads ---------------------------- *)
TypeFields == {JString(s) : s \in KnownTagSet \cup OtherTags} \cup {JNumber, Absent}

SenderFields == {JString(s) : s \in UserIdStrings} \cup {JString("bob"), Absent}

\* The content shape a payload of the given type field is sent with.
ShapeFor(ty) ==
    IF ty.t = "string" /\ ty.v \in KnownTagSet
    THEN EventType_from_str(ty.v).name ELSE "RoomKey"

ContentFields(ty) == {JContent(ShapeFor(ty), b) : b \in Bodies} \cup {JNumber, Absent}

Payloads ==
    {JObject(ty, s, c) : <<ty, s, c>> \in
        {x \in TypeFields \X SenderFields \X UNION {ContentFields(y) : y \in TypeFields} :
            x[3] \in ContentFields(x[1])}}

\* The messages that fill the rest of a batch: a good one, an unknown kind,
\* one without type, one whose content fails validation.
BatchPayloads ==
    {JObject(JString("m.room_key"), JString("@alice:example.org"), JContent("RoomKey", "key1")),
     JObject(JString("m.bogus"), JString("@bob:example.org"), JContent("RoomKey", "key1")),
     JObject(Absent, JString("@bob:example.org"), JContent("RoomKey", "key2")),
     JObject(JString("m.key.verification.start"), JString("@bob:example.org"),
             JContent("KeyVerificationStart", "malformed"))}

(* ------------------------------- state --------------------------------- *)
VARIABLES
    stage,      \* per message: "empty", "untyped", "raw", "validated",
                \*              "decode_failed", "validate_failed"
    payload,    \* per message: the untyped tree as it arrived
    raw,        \* per message: the raw::ToDevice value, while it exists
    val,        \* per message: the ToDevice value, once validated
    err,        \* per message: the error returned by the failed call
    origin      \* per message: the message whose encoding it is, or 0

vars == <<stage, payload, raw, val, err, origin>>

Init ==
    /\ payload \in {f \in [Msgs -> Payloads \cup BatchPayloads \cup {None}] :
                        /\ f[1] \in Payloads
                        /\ \A i \in Msgs \ {1} : f[i] \in BatchPayloads \cup {None}}
    /\ stage = [i \in Msgs |-> IF payload[i] = None THEN "empty" ELSE "untyped"]
    /\ raw = [i \in Msgs |-> None]
    /\ val = [i \in Msgs |-> None]
    /\ err = [i \in Msgs |-> None]
    /\ origin = [i \in Msgs |-> 0]

\* decode that gives up on the batch once one of its messages has failed.
Decode_aborting(i) ==
    /\ stage[i] = "untyped"
    /\ \A j \in Msgs : stage[j] # "decode_failed"
    /\ LET r == raw_ToDevice_deserialize(payload[i])
       IN  /\ stage' = [stage EXCEPT ![i] = IF r.ok THEN "raw" ELSE "decode_failed"]
           /\ raw' = [raw EXCEPT ![i] = r.val]
           /\ err' = [err EXCEPT ![i] = r.err]
    /\ UNCHANGED <<payload, val, origin>>

\* decode: serde_json::from_value::<raw::ToDevice>(payload).
Decode(i) ==
    /\ stage[i] = "untyped"
    /\ LET r == raw_ToDevice_deserialize(payload[i])
       IN  /\ stage' = [stage EXCEPT ![i] = IF r.ok THEN "raw" ELSE "decode_failed"]
           /\ raw' = [raw EXCEPT ![i] = r.val]
           /\ err' = [err EXCEPT ![i] = r.err]
    /\ UNCHANGED <<payload, val, origin>>

\* validate: ToDevice::try_from_raw(raw), which consumes the raw value.
Validate(i) ==
    /\ stage[i] = "raw"
    /\ LET r == ToDevice_try_from_raw(raw[i])
       IN  /\ stage' = [stage EXCEPT ![i] = IF r.ok THEN "validated" ELSE "validate_failed"]
           /\ val' = [val EXCEPT ![i] = r.val]
           /\ err' = [err EXCEPT ![i] = r.err]
    /\ raw' = [raw EXCEPT ![i] = None]
    /\ UNCHANGED <<payload, origin>>

\* encode: serde_json::to_value(&to_device); the tree is a new message j.
Encode(i, j) ==
    /\ stage[i] = "validated"
    /\ stage[j] = "empty"
    /\ \A k \in Msgs : origin[k] # i
    /\ payload' = [payload EXCEPT ![j] = ToDevice_serialize(val[i])]
    /\ stage' = [stage EXCEPT ![j] = "untyped"]
    /\ origin' = [origin EXCEPT ![j] = i]
    /\ UNCHANGED <<raw, val, err>>

Next ==
    \/ \E i \in Msgs : Decode(i)
    \/ \E i \in Msgs : Validate(i)
    \/ \E i, j \in Msgs : Encode(i, j)

Spec == Init /\ [][Next]_vars

(* ------------------------------ claims --------------------------------- *)
HasFields(p, fs) == fs \subseteq DOMAIN p

IsMessage(i) == stage[i] # "empty"

Decoded(i) == stage[i] \in {"raw", "validated", "decode_failed", "validate_failed"}

Finished(i) == stage[i] \in {"validated", "decode_failed", "validate_failed"}

\* The type field is a string naming one of the ten to-device kinds.
KnownType(p) ==
    /\ HasFields(p, {"type"})
    /\ p.type.t = "string"
    /\ p.type.v \in KnownTagSet

\* The variant whose documentation names the tag.
VariantOfTag(tag) == Variants[CHOOSE n \in DOMAIN KnownTags : KnownTags[n] = tag]

SenderOk(p) ==
    /\ HasFields(p, {"sender"})
    /\ p.sender.t = "string"
    /\ p.sender.v \in UserIdStrings

\* The content field decodes as the raw content of the payload's kind.
ContentOk(p) ==
    /\ KnownType(p)
    /\ HasFields(p, {"content"})
    /\ Content_deserialize(VariantOfTag(p.type.v), p.content).ok

DirectContent(p) == Content_deserialize(VariantOfTag(p.type.v), p.content).val

\* A payload of a known kind whose fields all decode and whose content
\* passes its normalization.
WellFormed(p) ==
    /\ KnownType(p)
    /\ SenderOk(p)
    /\ ContentOk(p)
    /\ Content_try_from_raw(DirectContent(p)).ok

\* C1: decode then validate on a well-formed payload of each of the ten
\* tags yields the variant named by the tag, with the payload's sender and
\* the content obtained from a direct decode of the content sub-object.
C1_TagSelectsVariant ==
    \A i \in Msgs :
        (IsMessage(i) /\ WellFormed(payload[i])) =>
            /\ stage[i] \in {"untyped", "raw", "validated"}
            /\ stage[i] = "raw" =>
                  /\ raw[i].variant = VariantOfTag(payload[i].type.v)
                  /\ raw[i].event.sender = UserId_parse(payload[i].sender.v)
                  /\ raw[i].event.content = DirectContent(payload[i])
            /\ stage[i] = "validated" =>
                  /\ val[i].variant = VariantOfTag(payload[i].type.v)
                  /\ val[i].event.sender = UserId_parse(payload[i].sender.v)
                  /\ val[i].event.content =
                        Content_try_from_raw(DirectContent(payload[i])).val

C1_Witness ==
    \E i \in Msgs :
        /\ IsMessage(i) /\ WellFormed(payload[i])
        /\ payload[i].type.v = "m.key.verification.mac"
        /\ payload[i].sender.v = "@bob:example.org"
        /\ stage[i] = "validated"

\* The type field is a string outside the ten to-device tags.
UnknownType(p) ==
    /\ HasFields(p, {"type"})
    /\ p.type.t = "string"
    /\ p.type.v \notin KnownTagSet

\* C2 as stated: decode on a payload whose type is a string outside the ten
\* tags fails with an error that carries that string unchanged.
C2_UnknownTagCarried ==
    \A i \in Msgs :
        (IsMessage(i) /\ UnknownType(payload[i]) /\ Decoded(i)) =>
            /\ stage[i] = "decode_failed"
            /\ err[i].arg = payload[i].type.v

\* C2 amended: decode on a payload whose type is a string outside the ten
\* tags fails with the custom error "unknown to-device event", whatever the
\* tag (registry tag or custom tag) and whatever the other fields.
C2_UnknownTagRejected ==
    \A i \in Msgs :
        (IsMessage(i) /\ UnknownType(payload[i]) /\ Decoded(i)) =>
            /\ stage[i] = "decode_failed"
            /\ err[i] = custom("unknown to-device event")

C2_Witness ==
    \E i \in Msgs :
        /\ IsMessage(i) /\ UnknownType(payload[i])
        /\ payload[i].type.v = "m.room.message"
        /\ stage[i] = "decode_failed"

\* C3: the encoding of a validated value, decoded and validated again,
\* yields a value equal to the original.
C3_RoundTrip ==
    \A j \in Msgs :
        (origin[j] # 0 /\ Finished(j)) =>
            /\ stage[j] = "validated"
            /\ val[j] = val[origin[j]]

C3_Witness ==
    \E j \in Msgs :
        /\ origin[j] # 0
        /\ stage[j] = "decode_failed"
        /\ err[j] = missing_field("type")

\* The content of a payload decodes but fails its normalization.
ContentRejected(p) ==
    /\ KnownType(p)
    /\ SenderOk(p)
    /\ ContentOk(p)
    /\ ~Content_try_from_raw(DirectContent(p)).ok

\* The content type's own error for the payload's content.
InnerError(p) == Content_try_from_raw(DirectContent(p)).err

\* C4 as stated: a validate that fails on the content normalization returns
\* an error naming the failed variant and holding the content type's own
\* error value.
C4_ErrorNamesVariant ==
    \A i \in Msgs :
        stage[i] = "validate_failed" =>
            err[i] = [variant |-> VariantOfTag(payload[i].type.v),
                      inner |-> InnerError(payload[i])]

\* C4 amended: a validate that fails on the content normalization returns
\* the content type's own error rendered as a String (ToDevice::Err); the
\* cause is kept, the variant is not part of the error: two variants that
\* fail with the same cause return equal errors.
C4_ErrorIsCauseString ==
    /\ \A i \in Msgs :
          (IsMessage(i) /\ ContentRejected(payload[i]) /\ Finished(i)) =>
              /\ stage[i] = "validate_failed"
              /\ err[i] = [string |-> payload[i].content.v]
    /\ \A i, j \in Msgs :
          (/\ stage[i] = "validate_failed"
           /\ stage[j] = "validate_failed"
           /\ InnerError(payload[i]) = InnerError(payload[j])) => err[i] = err[j]

C4_Witness ==
    \E i, j \in Msgs :
        /\ stage[i] = "validate_failed"
        /\ stage[j] = "validate_failed"
        /\ payload[i].type.v = "m.room.encrypted"
        /\ payload[j].type.v = "m.key.verification.start"
        /\ err[i] = [string |-> "malformed"]
        /\ err[j] = err[i]

\* The payload has no type field, or one that is not a string.
NoType(p) == ~HasFields(p, {"type"}) \/ p.type.t # "string"

\* C5: decode on a payload without a (string) type field fails with the
\* missing field "type", never with the unknown-kind error, whatever its
\* sender and content are.
C5_MissingType ==
    \A i \in Msgs :
        (IsMessage(i) /\ NoType(payload[i]) /\ stage[i] # "untyped") =>
            /\ stage[i] = "decode_failed"
            /\ err[i] = missing_field("type")
            /\ err[i] # custom("unknown to-device event")

C5_Witness ==
    \E i \in Msgs :
        /\ origin[i] = 0
        /\ IsMessage(i)
        /\ ~HasFields(payload[i], {"type"})
        /\ SenderOk(payload[i])
        /\ HasFields(payload[i], {"content"})
        /\ stage[i] = "decode_failed"

\* C6: for each of the ten kinds, a payload without sender (its content
\* decoding) fails with the missing field "sender", a payload without
\* content fails with the missing field "content", and no payload lacking
\* one of the two is ever decoded with a default in its place.
C6_MissingSenderOrContent ==
    \A i \in Msgs :
        (IsMessage(i) /\ KnownType(payload[i]) /\ stage[i] # "untyped") =>
            /\ (~HasFields(payload[i], {"sender"}) /\ ContentOk(payload[i])) =>
                  /\ stage[i] = "decode_failed"
                  /\ err[i] = missing_field("sender")
            /\ ~HasFields(payload[i], {"content"}) =>
                  /\ stage[i] = "decode_failed"
                  /\ err[i] = missing_field("content")
            /\ ~HasFields(payload[i], {"sender", "content"}) =>
                  stage[i] = "decode_failed"

C6_Witness ==
    \E i \in Msgs :
        /\ IsMessage(i) /\ KnownType(payload[i])
        /\ payload[i].type.v = "m.room_key_request"
        /\ ~HasFields(payload[i], {"sender"})
        /\ ContentOk(payload[i])
        /\ stage[i] = "decode_failed"

\* C7: a successful validate yields the variant of the raw value, with the
\* raw value's sender and the normalization of the raw value's own content.
C7_ValidatePreservesVariant ==
    [][\A i \in Msgs :
          (stage[i] = "raw" /\ stage'[i] = "validated") =>
              /\ val'[i].variant = raw[i].variant
              /\ val'[i].event.sender = raw[i].event.sender
              /\ val'[i].event.content = Content_try_from_raw(raw[i].event.content).val
              /\ val'[i].event.content.kind = raw[i].variant]_vars

C7_Witness ==
    \E i \in Msgs :
        /\ stage[i] = "validated"
        /\ val[i].variant = "KeyVerificationKey"
        /\ val[i].event.sender = UserId_parse("@bob:example.org")
        /\ val[i].event.content.body = "key2"

\* The outcome of decode and validate on one payload, processed alone.
OutcomeAlone(p) ==
    LET d == raw_ToDevice_deserialize(p)
        v == ToDevice_try_from_raw(d.val)
    IN  IF ~d.ok THEN [stage |-> "decode_failed", val |-> None, err |-> d.err]
        ELSE IF ~v.ok THEN [stage |-> "validate_failed", val |-> None, err |-> v.err]
        ELSE [stage |-> "validated", val |-> v.val, err |-> None]

\* C8: in a batch processed in any interleaving, every message's outcome is
\* its outcome when processed alone; a failed message neither changes nor
\* prevents the processing of another, and equal payloads give equal results.
C8_Independent ==
    /\ \A i \in Msgs :
          /\ stage[i] = "untyped" => ENABLED Decode(i)
          /\ stage[i] = "raw" =>
                /\ raw[i] = raw_ToDevice_deserialize(payload[i]).val
                /\ ENABLED Validate(i)
          /\ Finished(i) =>
                /\ stage[i] = OutcomeAlone(payload[i]).stage
                /\ val[i] = OutcomeAlone(payload[i]).val
                /\ err[i] = OutcomeAlone(payload[i]).err
    /\ \A i, j \in Msgs :
          (payload[i] = payload[j] /\ Finished(i) /\ Finished(j)) =>
              (stage[i] = stage[j] /\ val[i] = val[j] /\ err[i] = err[j])

C8_Witness ==
    \E i, j \in Msgs :
        /\ i # j
        /\ stage[i] = "decode_failed"
        /\ err[i] = custom("unknown to-device event")
        /\ stage[j] = "validated"

\* A field of the payload is missing or does not decode.
SenderBad(p) == ~SenderOk(p)

ContentBad(p) == ~ContentOk(p)

\* C9: for a payload of a known kind whose content and sender are both
\* missing or malformed the failure names content; and a successful decode
\* gives the value that extracting sender first would give.
C9_ContentBeforeSender ==
    \A i \in Msgs :
        (IsMessage(i) /\ KnownType(payload[i]) /\ stage[i] # "untyped") =>
            /\ (ContentBad(payload[i]) /\ SenderBad(payload[i])) =>
                  /\ stage[i] = "decode_failed"
                  /\ err[i] = missing_field("content")
            /\ stage[i] = "raw" =>
                  raw[i].event =
                      ToDeviceEvent_deserialize_sender_first(raw[i].variant, payload[i]).val

C9_Witness ==
    \E i \in Msgs :
        /\ IsMessage(i) /\ KnownType(payload[i])
        /\ ~HasFields(payload[i], {"sender"})
        /\ ~HasFields(payload[i], {"content"})
        /\ stage[i] = "decode_failed"

\* The steps a message's stage can take.
ForwardSteps ==
    {<<"empty", "untyped">>, <<"untyped", "raw">>, <<"untyped", "decode_failed">>,
     <<"raw", "validated">>, <<"raw", "validate_failed">>}

\* A message holds exactly the value of its stage, wholly raw or wholly
\* validated, and a failed message holds no value.
WholeValue(i) ==
    /\ stage[i] \in {"empty", "untyped", "decode_failed", "validate_failed"} =>
          (raw[i] = None /\ val[i] = None)
    /\ stage[i] = "raw" =>
          (val[i] = None /\ raw[i].event.content.form = "raw")
    /\ stage[i] = "validated" =>
          /\ raw[i] = None
          /\ err[i] = None
          /\ val[i].event.content.form = "validated"
          /\ Content_try_from_raw(DirectContent(payload[i])).ok
          /\ val[i].event.sender = UserId_parse(payload[i].sender.v)

\* C10: a message only moves forward, untyped -> raw -> validated (or to a
\* failure), and never holds a half-validated value.
C10_ForwardOnly ==
    /\ [](\A i \in Msgs : WholeValue(i))
    /\ [][\A i \in Msgs :
            stage'[i] # stage[i] => <<stage[i], stage'[i]>> \in ForwardSteps]_vars

C10_Witness ==
    \E i, j \in Msgs :
        /\ stage[i] = "validated"
        /\ stage[j] = "validate_failed"
====
